---------------------------- MODULE Spec2Model ----------------------------
(***************************************************************************)
(* A model of the Sudoku solver of src/src/main.rs: the Cell variants, the *)
(* 81-cell board with its index arithmetic, propagate,                     *)
(* solve_pure_negative, and solve with its recursive backtracking.  The    *)
(* recursion of solve is a stack of frames, one per active call; a frame   *)
(* holds the board the call works on (self) and the call's locals.         *)
(***************************************************************************)
EXTENDS Integers, Sequences, FiniteSets

VARIABLES input, stack

vars == <<input, stack>>

----------------------------------------------------------------------------
(* Board dimensions (main.rs lines 5-7).                                   *)

BOARD_SEP == 3
BOARD_LEN == BOARD_SEP * BOARD_SEP
BOARD_SIZE == BOARD_LEN * BOARD_LEN

Indices == 0 .. (BOARD_SIZE - 1)
ValIdx == 0 .. (BOARD_LEN - 1)

----------------------------------------------------------------------------
(* enum Cell (lines 17-24).  Every variant is a record of the same shape;  *)
(* n is the payload of Fixed/Collapsed, s the payload of Superposition.    *)

NoStates == [i \in ValIdx |-> FALSE]
AllStates == [i \in ValIdx |-> TRUE]

Empty == [tag |-> "Empty", n |-> 0, s |-> NoStates]
Fixed(v) == [tag |-> "Fixed", n |-> v, s |-> NoStates]
Collapsed(v) == [tag |-> "Collapsed", n |-> v, s |-> NoStates]
Superposition(s) == [tag |-> "Superposition", n |-> 0, s |-> s]

(* Option<T> *)
None == [some |-> FALSE, val |-> 0]
Some(v) == [some |-> TRUE, val |-> v]
unwrap_or(o, d) == IF o.some THEN o.val ELSE d

(* Cell::count_superstates (lines 27-32) *)
count_superstates(cell) ==
    IF cell.tag = "Superposition"
    THEN Some(Cardinality({i \in ValIdx : cell.s[i]}))
    ELSE None

(* Cell::collapse (lines 34-51): the loop leaves in value the last index   *)
(* whose flag is set, plus one, and in count the number of flags set.      *)
RECURSIVE CollapseLoop(_, _, _, _)
CollapseLoop(s, i, count, value) ==
    IF i = BOARD_LEN THEN <<count, value>>
    ELSE IF s[i] THEN CollapseLoop(s, i + 1, count + 1, i + 1)
         ELSE CollapseLoop(s, i + 1, count, value)

collapse(cell) ==
    IF cell.tag = "Superposition"
    THEN LET r == CollapseLoop(cell.s, 0, 0, 0)
         IN  IF r[1] = 1 THEN Some(r[2]) ELSE None
    ELSE None

----------------------------------------------------------------------------
(* Coordinate arithmetic (lines 99-123).                                   *)

coord_to_idx(row, col) == row * BOARD_LEN + col
idx_to_coord(idx) == <<idx \div BOARD_LEN, idx % BOARD_LEN>>
row_idx(idx) == (idx \div BOARD_LEN) * BOARD_LEN
col_idx(idx) == idx % BOARD_LEN
subsection_idx(idx) ==
    LET rc == idx_to_coord(idx)
        row == rc[1] - (rc[1] % BOARD_SEP)
        col == rc[2] - (rc[2] % BOARD_SEP)
    IN  row * BOARD_LEN + col

(* The index ranges the three loops of propagate and solve_pure_negative   *)
(* walk: row_idx..row_idx + BOARD_LEN, (col_idx..BOARD_SIZE).step_by(9),   *)
(* and the BOARD_SEP x BOARD_SEP square from subsection_idx.               *)
RowRange(idx) == row_idx(idx) .. (row_idx(idx) + BOARD_LEN - 1)
ColRange(idx) == {col_idx(idx) + k * BOARD_LEN : k \in 0 .. (BOARD_LEN - 1)}
SubsectionRange(idx) ==
    LET rc == idx_to_coord(subsection_idx(idx))
    IN  {coord_to_idx(row, col) :
            row \in rc[1] .. (rc[1] + BOARD_SEP - 1),
            col \in rc[2] .. (rc[2] + BOARD_SEP - 1)}

----------------------------------------------------------------------------
(* Sudoku::from_zero_grid (lines 79-97); grid is a 9-tuple of 9-tuples.    *)
from_zero_grid(grid) ==
    [idx \in Indices |->
        LET cell == grid[(idx \div BOARD_LEN) + 1][(idx % BOARD_LEN) + 1]
        IN  IF cell = 0 THEN Empty ELSE Fixed(cell)]

(* Sudoku::is_solved (lines 125-129) *)
is_solved(grid) ==
    \A idx \in Indices : grid[idx].tag \in {"Fixed", "Collapsed"}

(* the cell left as it is: initialize_cell without its Empty arm *)
KeepCell(cell) == cell

(* Sudoku::initialize_superpositions (lines 131-137); a cell that is       *)
(* neither Fixed nor Empty hits unreachable!().                            *)
initialize_cell(cell) ==
    IF cell.tag = "Empty" THEN Superposition(AllStates) ELSE cell

initialize_superpositions(grid) ==
    [idx \in Indices |-> initialize_cell(grid[idx])]

Min(S) == CHOOSE x \in S : \A y \in S : x <= y

(* the flag of digit n flipped: ClearBit with a toggle for the store *)
ToggleBit(s, n) == [s EXCEPT ![n - 1] = ~s[n - 1]]

(* s[n as usize - 1] = false (lines 148, 156, 169) *)
ClearBit(s, n) == [s EXCEPT ![n - 1] = FALSE]

(* One loop of propagate over a range of indices, in ascending order       *)
(* (lines 146-150, 154-158, 164-172): each Superposition cell of the range *)
(* loses candidate n.                                                      *)
RECURSIVE ClearIn(_, _, _)
ClearIn(grid, range, n) ==
    IF range = {} THEN grid
    ELSE LET j == Min(range)
         IN  IF grid[j].tag = "Superposition"
             THEN ClearIn([grid EXCEPT ![j] =
                              Superposition(ClearBit(grid[j].s, n))],
                          range \ {j}, n)
             ELSE ClearIn(grid, range \ {j}, n)

(* Sudoku::propagate (lines 139-173) *)
propagate(grid, idx) ==
    IF grid[idx].tag \in {"Fixed", "Collapsed"}
    THEN LET n == grid[idx].n
         IN  ClearIn(ClearIn(ClearIn(grid, RowRange(idx), n),
                             ColRange(idx), n),
                     SubsectionRange(idx), n)
    ELSE grid

(* num_alternatives after one loop of solve_pure_negative (lines 188-194,  *)
(* 205-211, 223-233).                                                      *)
num_alternatives(grid, range, idx, val_idx) ==
    Cardinality({j \in range :
        grid[j].tag = "Superposition" /\ j # idx /\ grid[j].s[val_idx]})

(* Whether the body of the candidate loop collapses the cell for val_idx   *)
(* (lines 196, 213, 235).                                                  *)
NoAlternative(grid, idx, val_idx) ==
    \/ num_alternatives(grid, RowRange(idx), idx, val_idx) = 0
    \/ num_alternatives(grid, ColRange(idx), idx, val_idx) = 0
    \/ num_alternatives(grid, SubsectionRange(idx), idx, val_idx) = 0

(* Sudoku::solve_pure_negative (lines 175-240): candidates in ascending    *)
(* order; the first one without alternative collapses the cell and breaks. *)
solve_pure_negative(grid, idx) ==
    IF grid[idx].tag = "Superposition"
    THEN LET forced == {v \in ValIdx :
                           grid[idx].s[v] /\ NoAlternative(grid, idx, v)}
         IN  IF forced = {} THEN grid
             ELSE [grid EXCEPT ![idx] = Collapsed(Min(forced) + 1)]
    ELSE grid

----------------------------------------------------------------------------
(* The calls of solve (lines 242-308).  A frame is one active call: grid   *)
(* is self, iters is iters_without_collapse, collapsed the flag of line    *)
(* 251, idx the index found at line 281, s the candidates copied at line   *)
(* 288, val the index of the candidate being tried at line 292.  The two   *)
(* for loops of the while body are one step each.  pc is the call's        *)
(* position:                                                               *)
(*   "new"       constructed by from_zero_grid (main, line 383)            *)
(*   "ready"     initialize_superpositions done (main, line 384)           *)
(*   "while"     at the loop condition of line 245                         *)
(*   "pass1"     before the loop of lines 246-249                          *)
(*   "pass2"     before the loop of lines 253-266                          *)
(*   "tally"     at line 268                                               *)
(*   "after"     at line 279                                               *)
(*   "try"       at the head of the loop of line 292                       *)
(*   "wait"      in clone.solve() at line 300                              *)
(*   "returned"  solve has returned                                        *)
(*   "panic"     unreachable!() or expect() has fired                      *)

Frame(grid, pc) ==
    [grid |-> grid, pc |-> pc, idx |-> 0, iters |-> 0, collapsed |-> FALSE,
     s |-> NoStates, val |-> 0]

Depth == Len(stack)
Top == stack[Depth]
SetTop(f) == [stack EXCEPT ![Depth] = f]

(* main, line 384: sudoku.initialize_superpositions() *)
InitializeSuperpositions ==
    /\ Top.pc = "new"
    /\ stack' = SetTop(
         IF \A idx \in Indices : Top.grid[idx].tag \in {"Fixed", "Empty"}
         THEN [Top EXCEPT !.grid = initialize_superpositions(Top.grid),
                          !.pc = "ready"]
         ELSE [Top EXCEPT !.pc = "panic"])
    /\ UNCHANGED input

(* main, line 385: sudoku.solve(); line 243 *)
SolveEnter ==
    /\ Top.pc = "ready"
    /\ stack' = SetTop([Top EXCEPT !.pc = "while", !.iters = 0])
    /\ UNCHANGED input

(* line 245: while !self.is_solved() *)
WhileCheck ==
    /\ Top.pc = "while"
    /\ stack' = SetTop(
         IF is_solved(Top.grid)
         THEN [Top EXCEPT !.pc = "after"]
         ELSE [Top EXCEPT !.pc = "pass1"])
    /\ UNCHANGED input

(* lines 247-248: the body of the first loop *)
DeduceStep(grid, idx) == propagate(solve_pure_negative(grid, idx), idx)

(* lines 246-249: the iterations idx .. end - 1 of the first loop.  A      *)
(* board is an array of BOARD_SIZE cells; the test on its domain has the   *)
(* board of an iteration evaluated before the next one starts.             *)
RECURSIVE DeduceRange(_, _, _)
DeduceRange(grid, idx, end) ==
    IF idx = end \/ DOMAIN grid # Indices THEN grid
    ELSE DeduceRange(DeduceStep(grid, idx), idx + 1, end)

(* lines 246-249: the first loop, from the first cell of row on, a row of  *)
(* the board at a time                                                     *)
RECURSIVE DeducePass(_, _)
DeducePass(grid, row) ==
    IF row = BOARD_LEN THEN grid
    ELSE DeducePass(DeduceRange(grid, row * BOARD_LEN, (row + 1) * BOARD_LEN),
                    row + 1)

(* lines 246-251: the propagate/deduce pass *)
Pass1 ==
    /\ Top.pc = "pass1"
    /\ stack' = SetTop([Top EXCEPT !.grid = DeducePass(Top.grid, 0),
                                   !.pc = "pass2", !.collapsed = FALSE])
    /\ UNCHANGED input

(* lines 254-255: whether the cell collapses *)
Collapses(grid, idx) ==
    grid[idx].tag = "Superposition" /\ collapse(grid[idx]).some

(* lines 254-261: the board after *)
CollapseStep(grid, idx) ==
    IF Collapses(grid, idx)
    THEN DeduceStep([grid EXCEPT ![idx] = Collapsed(collapse(grid[idx]).val)],
                    idx)
    ELSE grid

(* the test of line 263 never true: Contradiction without its check *)
NoContradiction(cell) == FALSE

(* line 263 *)
Contradiction(cell) == unwrap_or(count_superstates(cell), 1) = 0

(* lines 253-266: the iterations idx .. end - 1 of the second loop;        *)
(* returned tells that line 264 has left solve                             *)
RECURSIVE CollapseRange(_, _, _, _)
CollapseRange(grid, idx, end, collapsed) ==
    IF idx = end
    THEN [grid |-> grid, collapsed |-> collapsed, returned |-> FALSE]
    ELSE LET g == CollapseStep(grid, idx)
             c == collapsed \/ Collapses(grid, idx)
         IN  IF Contradiction(g[idx])
             THEN [grid |-> g, collapsed |-> c, returned |-> TRUE]
             ELSE CollapseRange(g, idx + 1, end, c)

(* lines 253-266: the second loop, from the first cell of row on, a row of *)
(* the board at a time                                                     *)
RECURSIVE CollapsePass(_, _, _)
CollapsePass(grid, row, collapsed) ==
    IF row = BOARD_LEN
    THEN [grid |-> grid, collapsed |-> collapsed, returned |-> FALSE]
    ELSE LET r == CollapseRange(grid, row * BOARD_LEN, (row + 1) * BOARD_LEN,
                                collapsed)
         IN  IF r.returned THEN r
             ELSE CollapsePass(r.grid, row + 1, r.collapsed)

(* lines 253-266: the collapse pass *)
Pass2 ==
    /\ Top.pc = "pass2"
    /\ LET r == CollapsePass(Top.grid, 0, Top.collapsed)
       IN  stack' = SetTop(
             [Top EXCEPT !.grid = r.grid, !.collapsed = r.collapsed,
                         !.pc = IF r.returned THEN "returned" ELSE "tally"])
    /\ UNCHANGED input

(* the counter reset on every iteration: NextIters without its else arm *)
ResetIters(collapsed, iters) == 0

(* lines 268-272 *)
NextIters(collapsed, iters) == IF collapsed THEN 0 ELSE iters + 1

(* line 274 *)
Stalled(iters) == iters > 3

(* lines 268-277 *)
Tally ==
    /\ Top.pc = "tally"
    /\ LET n == NextIters(Top.collapsed, Top.iters)
       IN  stack' = SetTop(
             [Top EXCEPT !.iters = n,
                         !.pc = IF Stalled(n) THEN "after" ELSE "while"])
    /\ UNCHANGED input

(* lines 281-286: position of the first Superposition cell *)
Superpositions(grid) == {i \in Indices : grid[i].tag = "Superposition"}

(* lines 279-290 *)
Backtrack ==
    /\ Top.pc = "after"
    /\ stack' = SetTop(
         IF is_solved(Top.grid)
         THEN [Top EXCEPT !.pc = "returned"]
         ELSE IF Superpositions(Top.grid) = {}
         THEN [Top EXCEPT !.pc = "panic"]
         ELSE LET idx == Min(Superpositions(Top.grid))
              IN  [Top EXCEPT !.idx = idx, !.s = Top.grid[idx].s,
                              !.val = 0, !.pc = "try"])
    /\ UNCHANGED input

(* the clone with the cell of index val_idx collapsed: CloneWith with      *)
(* val_idx for idx in the assignment                                       *)
CloneAtValue(grid, idx, val_idx) ==
    [grid EXCEPT ![val_idx] = Collapsed(val_idx + 1)]

(* lines 297-298: the clone with the chosen cell collapsed to val_idx + 1 *)
CloneWith(grid, idx, val_idx) ==
    [grid EXCEPT ![idx] = Collapsed(val_idx + 1)]

(* the candidates the iterator of lines 292-295 has yet to yield *)
Remaining(f) == {v \in ValIdx : v >= f.val /\ f.s[v]}

(* lines 292-300: the next candidate, the clone, the recursive call *)
TryCandidate ==
    /\ Top.pc = "try"
    /\ Remaining(Top) # {}
    /\ LET v == Min(Remaining(Top))
           clone == CloneWith(Top.grid, Top.idx, v)
       IN  stack' = Append(SetTop([Top EXCEPT !.val = v, !.pc = "wait"]),
                           Frame(clone, "while"))
    /\ UNCHANGED input

(* lines 292-307: the candidates are exhausted, solve returns *)
Exhausted ==
    /\ Top.pc = "try"
    /\ Remaining(Top) = {}
    /\ stack' = SetTop([Top EXCEPT !.pc = "returned"])
    /\ UNCHANGED input

(* lines 300-305: clone.solve() has returned *)
CloneReturn ==
    /\ Depth > 1
    /\ Top.pc = "returned"
    /\ LET clone == Top.grid
           caller == stack[Depth - 1]
           rest == SubSeq(stack, 1, Depth - 1)
       IN  stack' = [rest EXCEPT ![Depth - 1] =
             IF is_solved(clone)
             THEN [caller EXCEPT !.grid = clone, !.pc = "returned"]
             ELSE [caller EXCEPT !.val = caller.val + 1, !.pc = "try"]]
    /\ UNCHANGED input

Next ==
    \/ InitializeSuperpositions
    \/ SolveEnter
    \/ WhileCheck
    \/ Pass1
    \/ Pass2
    \/ Tally
    \/ Backtrack
    \/ TryCandidate
    \/ Exhausted
    \/ CloneReturn

----------------------------------------------------------------------------
(* Input grids.                                                            *)

(* SAMPLE_GRID, the "Hard grid" (lines 364-374) *)
SAMPLE_GRID ==
    << <<0, 2, 0, 0, 0, 0, 0, 0, 0>>,
       <<0, 0, 0, 6, 0, 0, 0, 0, 3>>,
       <<0, 7, 4, 0, 8, 0, 0, 0, 0>>,
       <<0, 0, 0, 0, 0, 3, 0, 0, 2>>,
       <<0, 8, 0, 0, 4, 0, 0, 1, 0>>,
       <<6, 0, 0, 5, 0, 0, 0, 0, 0>>,
       <<0, 0, 0, 0, 1, 0, 7, 8, 0>>,
       <<5, 0, 0, 0, 0, 9, 0, 0, 0>>,
       <<0, 0, 0, 0, 0, 0, 0, 4, 0>> >>

(* EXAMPLE_GRID, the "Easy grid" (lines 338-348) *)
EXAMPLE_GRID ==
    << <<0, 0, 0, 2, 6, 0, 7, 0, 1>>,
       <<6, 8, 0, 0, 7, 0, 0, 9, 0>>,
       <<1, 9, 0, 0, 0, 4, 5, 0, 0>>,
       <<8, 2, 0, 1, 0, 0, 0, 4, 0>>,
       <<0, 0, 4, 6, 0, 2, 9, 0, 0>>,
       <<0, 5, 0, 0, 0, 3, 0, 2, 8>>,
       <<0, 0, 9, 3, 0, 0, 0, 7, 4>>,
       <<0, 4, 0, 0, 5, 0, 0, 3, 6>>,
       <<7, 0, 3, 0, 1, 8, 0, 0, 0>> >>

(* A filled valid grid: the rows are shifts of 1..9. *)
FilledGrid ==
    [r \in 1 .. BOARD_LEN |-> [c \in 1 .. BOARD_LEN |->
        ((BOARD_SEP * ((r - 1) % BOARD_SEP) + ((r - 1) \div BOARD_SEP)
            + (c - 1)) % BOARD_LEN) + 1]]

(* grid with the cells of holes set to 0 *)
Punch(grid, holes) ==
    [r \in 1 .. BOARD_LEN |-> [c \in 1 .. BOARD_LEN |->
        IF coord_to_idx(r - 1, c - 1) \in holes THEN 0 ELSE grid[r][c]]]

(* grid with the given of cell p replaced by that of its neighbour in the   *)
(* row (the next cell, or the previous one at the end of the row)          *)
Duplicate(grid, p) ==
    LET q == IF p % BOARD_LEN < BOARD_LEN - 1 THEN p + 1 ELSE p - 1
    IN  [r \in 1 .. BOARD_LEN |-> [c \in 1 .. BOARD_LEN |->
            IF coord_to_idx(r - 1, c - 1) = p
            THEN grid[(q \div BOARD_LEN) + 1][(q % BOARD_LEN) + 1]
            ELSE grid[r][c]]]

(* Bounds of the input families. *)
MaxHoles == 2
MaxBlankLines == 2

HolePool == {0, 8, 24, 26, 28, 31, 33, 35, 72, 73}
DupCells == {0, 30}

HoleSets == {H \in SUBSET HolePool : Cardinality(H) <= MaxHoles}
LineSets ==
    {L \in SUBSET (0 .. (BOARD_LEN - 1)) : Cardinality(L) <= MaxBlankLines}
RowCells(L) == {idx \in Indices : idx \div BOARD_LEN \in L}
ColCells(L) == {idx \in Indices : idx % BOARD_LEN \in L}

(* FilledGrid with one blank anywhere, with up to MaxHoles blanks of       *)
(* HolePool, with up to MaxBlankLines rows or columns blank, with all      *)
(* cells blank                                                             *)
PunchedGrids ==
    {Punch(FilledGrid, {p}) : p \in Indices}
        \cup {Punch(FilledGrid, H) : H \in HoleSets}
        \cup {Punch(FilledGrid, RowCells(L)) : L \in LineSets}
        \cup {Punch(FilledGrid, ColCells(L)) : L \in LineSets}
        \cup {Punch(FilledGrid, Indices)}

(* the same with two equal givens in a row *)
DuplicateGrids ==
    {Punch(Duplicate(FilledGrid, p), H) : p \in DupCells, H \in HoleSets}

InputGrids ==
    {SAMPLE_GRID, EXAMPLE_GRID} \cup PunchedGrids \cup DuplicateGrids

(* main, line 383: Sudoku::from_zero_grid(&SAMPLE_GRID) *)
Init ==
    /\ input \in InputGrids
    /\ stack = <<Frame(from_zero_grid(input), "new")>>

Spec == Init /\ [][Next]_vars

----------------------------------------------------------------------------
(* Vocabulary of the properties.                                           *)

GivenAt(idx) == input[(idx \div BOARD_LEN) + 1][(idx % BOARD_LEN) + 1]
Givens == {idx \in Indices : GivenAt(idx) # 0}
Blanks == Indices \ Givens

Determined(cell) == cell.tag \in {"Fixed", "Collapsed"}
Digits == 1 .. BOARD_LEN

(* the 27 rows, columns and 3x3 blocks *)
Units ==
    {RowRange(i) : i \in Indices} \cup {ColRange(i) : i \in Indices}
        \cup {SubsectionRange(i) : i \in Indices}

Peers(idx) ==
    (RowRange(idx) \cup ColRange(idx) \cup SubsectionRange(idx)) \ {idx}

(* every unit of the board holds exactly the digits 1..9 *)
UnitsComplete(grid) ==
    \A U \in Units :
        /\ \A i \in U : Determined(grid[i])
        /\ {grid[i].n : i \in U} = Digits

(* no two determined cells of a unit hold the same digit *)
NoDuplicate(grid) ==
    \A U \in Units : \A i, j \in U :
        (i < j /\ Determined(grid[i]) /\ Determined(grid[j]))
            => grid[i].n # grid[j].n

(* the top-level solve has returned to main *)
Done == Depth = 1 /\ Top.pc = "returned"

(* the call of the top frame has reached the backtracking of lines 279-307 *)
Backtracking(f) ==
    \/ f.pc = "after" /\ ~is_solved(f.grid)
    \/ f.pc \in {"try", "wait"}

(* the call of the top frame has adopted a solved clone (line 303) *)
Adopted(f) == f.pc = "returned" /\ f.s # NoStates /\ is_solved(f.grid)

(* the givens of the input have no duplicate in any unit *)
GivensConsistent == NoDuplicate(from_zero_grid(input))

(* two equal givens in a row of the input *)
RowDuplicate ==
    \E i, j \in Givens :
        i < j /\ RowRange(i) = RowRange(j) /\ GivenAt(i) = GivenAt(j)

(* the input is FilledGrid, a valid completion, with some cells blanked *)
Completable ==
    /\ UnitsComplete(from_zero_grid(FilledGrid))
    /\ \A idx \in Givens : GivenAt(idx) = FilledGrid[(idx \div BOARD_LEN) + 1]
                                                    [(idx % BOARD_LEN) + 1]

(* the input is filled and valid *)
FilledValid == Blanks = {} /\ UnitsComplete(from_zero_grid(input))

(* 80 givens, one blank, whose peers hold no duplicate in the blank's row, *)
(* column and block and cover 8 of the 9 digits                            *)
PeerDigits(idx) == {GivenAt(j) : j \in Peers(idx)}

OneBlank ==
    /\ Cardinality(Blanks) = 1
    /\ LET b == CHOOSE idx \in Blanks : TRUE
       IN  /\ \A U \in {RowRange(b), ColRange(b), SubsectionRange(b)} :
                  \A i, j \in U \ {b} : i < j => GivenAt(i) # GivenAt(j)
           /\ Cardinality(PeerDigits(b)) = BOARD_LEN - 1

TheBlank == CHOOSE idx \in Blanks : TRUE
MissingDigit == CHOOSE d \in Digits : d \notin PeerDigits(TheBlank)

----------------------------------------------------------------------------
(* C1.  Soundness: when solve has returned and is_solved is true, every    *)
(* row, column and block holds exactly the digits 1..9 (so no repeats).    *)
(* Stated for the inputs whose givens hold no duplicate: on the others no  *)
(* solved board exists, and C3 is about them.                              *)
Soundness ==
    (GivensConsistent /\ Done /\ is_solved(Top.grid))
        => UnitsComplete(Top.grid)

(* C2.  Easy deduction: on a grid with one blank whose peers cover 8       *)
(* digits, solve never enters its backtracking branch, and ends solved     *)
(* with the missing digit in the blank.                                    *)
EasyDeduction ==
    OneBlank =>
        /\ Depth = 1 /\ Top.pc \notin {"try", "wait", "panic"}
        /\ Done => /\ is_solved(Top.grid)
                   /\ Determined(Top.grid[TheBlank])
                   /\ Top.grid[TheBlank].n = MissingDigit

(* C3.  Contradictory input: on a grid with two equal givens in a row,     *)
(* is_solved is false once solve has returned.                             *)
ContradictoryInput ==
    (RowDuplicate /\ Done) => ~is_solved(Top.grid)

(* C7.  No duplicate: on an initialized board whose givens have no         *)
(* duplicate, no state of solve (top level or clone) holds two determined  *)
(* cells of a unit with the same digit.  The boards below the top of the   *)
(* stack are those of earlier states, so the top one is the one to check.  *)
NoDuplicatePlaced ==
    (GivensConsistent /\ Top.pc # "new") => NoDuplicate(Top.grid)

(* C8.  Completeness: on an input that has a valid completion, is_solved   *)
(* is true once solve has returned.                                        *)
Completeness ==
    (Completable /\ Done) => is_solved(Top.grid)

(* C4.  Given preservation: every cell that from_zero_grid made Fixed(v)   *)
(* is Fixed(v) in every state of initialize_superpositions and solve, on   *)
(* the top-level board and on every clone, also once a clone is adopted.   *)
(* The boards below the top of the stack are those of earlier states.      *)
GivenPreservation ==
    \A idx \in Givens : Top.grid[idx] = Fixed(GivenAt(idx))

(* a clone has been adopted by the top-level call of a grid with givens *)
GivenPreservationWitness ==
    /\ Done /\ Adopted(Top)
    /\ \E idx \in Givens : Top.grid[idx] = Fixed(GivenAt(idx))

(* C6.  Propagation idempotence: propagate(idx) twice gives the board that *)
(* propagate(idx) once gives, for each of the 81 indices, on the board     *)
(* before each pass of every call of solve.                                *)
Idempotent(grid, idx) ==
    propagate(propagate(grid, idx), idx) = propagate(grid, idx)

PropagateIdempotent ==
    Top.pc \in {"pass1", "pass2"}
        => \A idx \in Indices : Idempotent(Top.grid, idx)

(* a board on which propagate for a determined cell clears a candidate *)
PropagateIdempotentWitness ==
    /\ Top.pc = "pass1"
    /\ \E idx \in Indices :
          /\ Determined(Top.grid[idx])
          /\ propagate(Top.grid, idx) # Top.grid
          /\ Idempotent(Top.grid, idx)

(* C9.  "No superstates found" is unreachable: once                        *)
(* initialize_superpositions has run no cell is Empty, in the top-level    *)
(* board and in every clone, no call panics, and a call that leaves its    *)
(* loop unsolved finds a Superposition cell.                               *)
NoSuperstatesUnreachable ==
    Top.pc # "new" =>
        /\ Top.pc # "panic"
        /\ \A idx \in Indices : Top.grid[idx].tag # "Empty"
        /\ (Top.pc = "after" /\ ~is_solved(Top.grid))
              => Superpositions(Top.grid) # {}

(* a clone's call has left its loop unsolved and found its cell *)
NoSuperstatesWitness ==
    Depth > 1 /\ Top.pc = "try" /\ Top.grid[Top.idx].tag = "Superposition"

(* C10.  At the backtracking step every Superposition cell has at least    *)
(* two candidates, and so has the cell chosen for guessing.                *)
Candidates(cell) == {v \in ValIdx : cell.s[v]}

TwoCandidatesAtBacktrack ==
    Backtracking(Top) =>
        /\ \A idx \in Superpositions(Top.grid) :
               Cardinality(Candidates(Top.grid[idx])) >= 2
        /\ Top.pc \in {"try", "wait"}
               => Cardinality({v \in ValIdx : Top.s[v]}) >= 2

(* a call is about to try the first candidate of its chosen cell *)
TwoCandidatesWitness ==
    /\ Top.pc = "try" /\ Top.val = 0
    /\ Cardinality(Superpositions(Top.grid)) >= 2

(* C5.  Termination: solve returns on every input; on a filled valid grid  *)
(* it returns with is_solved true and the board never changed.             *)
(* Termination is stated by a variant.  FrameRank orders the positions of  *)
(* one call: before the loop, then in the loop by the number of            *)
(* Superposition cells, the iterations without collapse still allowed and  *)
(* the position in the iteration, then in the backtracking by the          *)
(* candidates left.  Rank is the ranks of the calls from the top-level one *)
(* to the innermost.  Every step of solve makes Rank smaller in the        *)
(* lexicographic order, Rank has at most BOARD_SIZE + 1 components, each   *)
(* in 0 .. MaxRank, and only a returned top-level call has no next step:   *)
(* so the recursive calls are finitely many and solve returns.  HasStep is *)
(* the disjunction of the guards of the actions of Next.                   *)
BacktrackRank == 2 * BOARD_LEN + 2
LoopRank(budget, position) == BacktrackRank + 5 + 4 * budget + position
MaxRank == LoopRank(4 * BOARD_SIZE + 3, 6)

FrameRank(f) ==
    LET S == Cardinality(Superpositions(f.grid))
        budget == 4 * S + 2 - f.iters
    IN  CASE f.pc = "new" -> MaxRank
          [] f.pc = "ready" -> MaxRank - 1
          [] f.pc = "while" -> LoopRank(budget, 4)
          [] f.pc = "pass1" -> LoopRank(budget, 3)
          [] f.pc = "pass2" -> LoopRank(budget, 2)
          [] f.pc = "tally" ->
                LoopRank(IF f.collapsed THEN 4 * S + 3 ELSE budget, 1)
          [] f.pc = "after" -> BacktrackRank
          [] f.pc = "try" -> 2 * (BOARD_LEN - f.val) + 1
          [] f.pc = "wait" -> 2 * (BOARD_LEN - f.val)
          [] OTHER -> 0

Rank == [k \in 1 .. Depth |-> FrameRank(stack[k])]

LexLess(a, b) ==
    \E k \in (DOMAIN a) \cap (DOMAIN b) :
        /\ a[k] < b[k]
        /\ \A j \in 1 .. (k - 1) : a[j] = b[j]

HasStep ==
    \/ Top.pc \in {"new", "ready", "while", "pass1", "pass2", "tally", "after"}
    \/ Top.pc = "try" /\ Remaining(Top) # {}
    \/ Top.pc = "try" /\ Remaining(Top) = {}
    \/ Depth > 1 /\ Top.pc = "returned"

Termination ==
    /\ [][LexLess(Rank', Rank)]_vars
    /\ [](/\ Depth <= BOARD_SIZE + 1
          /\ \A k \in 1 .. Depth : FrameRank(stack[k]) \in 0 .. MaxRank
          /\ Done \/ HasStep)
    /\ [](FilledValid =>
            /\ Top.grid = from_zero_grid(input)
            /\ Done => is_solved(Top.grid))

(* solve has returned, after its loop has stalled and its backtracking has *)
(* adopted a clone, on a grid with two blank rows or columns or more       *)
TerminationWitness ==
    Done /\ Adopted(Top) /\ Cardinality(Blanks) >= 2 * BOARD_LEN

=============================================================================
